---------------------------- MODULE Spec2Model ----------------------------
(***************************************************************************)
(* A model of the ssdeep fuzzy-hashing package (github.com/cosmorse/ssdeep) *)
(* as it stands in its latest revision: the rolling/piecewise hasher         *)
(* (ssdeepState), the block-size estimation, the stream ingestion layer     *)
(* (Stream, streamReader) and the digest comparison (Compare, score,        *)
(* levenshtein, shrink).                                                    *)
(*                                                                         *)
(* Representation.  TLC's integers are 32-bit signed, the program's are    *)
(* uint32, int and int64.  A uint32 is modelled as the pair <<hi, lo>> of   *)
(* its two 16-bit halves and an int64 as four 16-bit limbs, least          *)
(* significant first, in two's complement; all arithmetic on them wraps     *)
(* exactly where the program's does.  A string is a sequence of             *)
(* one-character strings, a byte is a number in 0..255.                     *)
(***************************************************************************)
EXTENDS Integers, Sequences, FiniteSets, TLC

\* ------------------------------------------------------------------------
\* Program constants
\* ------------------------------------------------------------------------
minBlockSize == 3
windowSize == 7
spamSumLength == 64
base64Chars ==
    << "A","B","C","D","E","F","G","H","I","J","K","L","M","N","O","P",
       "Q","R","S","T","U","V","W","X","Y","Z","a","b","c","d","e","f",
       "g","h","i","j","k","l","m","n","o","p","q","r","s","t","u","v",
       "w","x","y","z","0","1","2","3","4","5","6","7","8","9","+","/" >>
\* hashInit = 0x01234567 as <<hi, lo>> = <<0x0123, 0x4567>>
hashInit == << 291, 17767 >>
\* The FNV prime of Write, 16777619 = 0x0100 * 2^16 + 0x0193
fnvPrimeHi == 256
fnvPrimeLo == 403

\* ------------------------------------------------------------------------
\* uint32 arithmetic (modulo 2^32) on pairs <<hi, lo>>
\* ------------------------------------------------------------------------
W16 == 2^16

U32(n) == << (n \div W16) % W16, n % W16 >>

Add32(a, b) ==
    LET lo == a[2] + b[2]
        hi == a[1] + b[1] + (lo \div W16)
    IN  << hi % W16, lo % W16 >>

Sub32(a, b) ==
    LET lo == a[2] - b[2]
        br == IF lo < 0 THEN 1 ELSE 0
        hi == a[1] - b[1] - br
    IN  << (hi + W16) % W16, (lo + W16) % W16 >>

\* a * k modulo 2^32, for a multiplier 0 <= k < 2^15
Mul32Small(a, k) ==
    LET lo == a[2] * k
        hi == a[1] * k + (lo \div W16)
    IN  << hi % W16, lo % W16 >>

\* a * 16777619 modulo 2^32
Mul32Prime(a) ==
    LET low == Mul32Small(a, fnvPrimeLo)
    IN  << (low[1] + a[2] * fnvPrimeHi) % W16, low[2] >>

RECURSIVE XorBits(_, _, _)
XorBits(a, b, k) ==
    IF k = 0 THEN 0
    ELSE ((a + b) % 2) + 2 * XorBits(a \div 2, b \div 2, k - 1)

\* a XOR c for a byte c
Xor32Byte(a, c) == << a[1], XorBits(a[2], c, 16) >>

Lt32(a, b) == a[1] < b[1] \/ (a[1] = b[1] /\ a[2] < b[2])

\* bit i (31 = most significant) of a
Bit32(a, i) == IF i >= 16 THEN (a[1] \div (2 ^ (i - 16))) % 2 ELSE (a[2] \div (2 ^ i)) % 2

\* Long division: the remainder of the bits i..0 of h brought down onto r.
\* r < m always, so 2r+1 < 2^33: when r's top bit is set the doubled value
\* exceeds m whatever its low 32 bits are.  (The test r2[2] >= 0 is always true;
\* it makes TLC evaluate r2 before the next round.)
RECURSIVE ModLoop(_, _, _, _)
ModLoop(h, m, r, i) ==
    IF i < 0 THEN r
    ELSE LET d  == Add32(Mul32Small(r, 2), << 0, Bit32(h, i) >>)
             r2 == IF r[1] >= 32768 \/ ~Lt32(d, m) THEN Sub32(d, m) ELSE d
         IN  IF r2[2] >= 0 THEN ModLoop(h, m, r2, i - 1) ELSE r2

\* h % m for m # 0 (the program never divides by zero: see estimateBlockSize)
Mod32(h, m) ==
    IF m[1] = 0 /\ m[2] < 32768
    THEN << 0, ((h[1] % m[2]) * (W16 % m[2]) + h[2]) % m[2] >>
    ELSE ModLoop(h, m, << 0, 0 >>, 31)

\* Decimal digits of a uint32 (strconv.AppendInt of a non-negative value)
Digits == << "0","1","2","3","4","5","6","7","8","9" >>

RECURSIVE FormatU32(_)
FormatU32(a) ==
    LET qh  == a[1] \div 10
        rh  == a[1] % 10
        low == rh * W16 + a[2]
        q   == << qh, low \div 10 >>
        d   == low % 10
    IN  IF q = << 0, 0 >> THEN << Digits[d + 1] >>
        ELSE Append(FormatU32(q), Digits[d + 1])

\* ------------------------------------------------------------------------
\* ssdeepState: reset, Write, Sum
\* ------------------------------------------------------------------------
Zero32 == << 0, 0 >>

\* The instance ssdeepStatePool.New allocates: a zero ssdeepState with two empty
\* output buffers
poolNew ==
    [ blockSize |-> Zero32,
      h1 |-> Zero32, h2 |-> Zero32, h3 |-> Zero32,
      window |-> [i \in 1..windowSize |-> 0],
      n |-> Zero32,
      p1 |-> Zero32, p2 |-> Zero32,
      hash1 |-> << >>, hash2 |-> << >> ]

\* reset that leaves the byte counter and the window as they were
reset_KeepsWindow(st, blockSize) ==
    [ blockSize |-> blockSize,
      h1 |-> Zero32, h2 |-> Zero32, h3 |-> Zero32,
      window |-> st.window,
      n |-> st.n,
      p1 |-> hashInit, p2 |-> hashInit,
      hash1 |-> SubSeq(st.hash1, 1, 0), hash2 |-> SubSeq(st.hash2, 1, 0) ]

\* state.reset(blockSize) on the instance st: the struct is overwritten with one
\* that holds blockSize, p1 = p2 = hashInit and the two buffers of st cut to
\* length 0; every other field is zero.
reset(st, blockSize) ==
    [ blockSize |-> blockSize,
      h1 |-> Zero32, h2 |-> Zero32, h3 |-> Zero32,
      window |-> [i \in 1..windowSize |-> 0],
      n |-> Zero32,
      p1 |-> hashInit, p2 |-> hashInit,
      hash1 |-> SubSeq(st.hash1, 1, 0), hash2 |-> SubSeq(st.hash2, 1, 0) ]

\* newSSDeepState(blockSize) when ssdeepStatePool.Get finds the pool empty and
\* calls New.  Bytes and Stream never call state.Close, so nothing they use is
\* ever put into the pool.
newSSDeepState(blockSize) == reset(poolNew, blockSize)

\* The second boundary test of Write, nested in the first
WriteBoundary2(s, h, bs2) ==
    IF Mod32(h, bs2) = Sub32(bs2, U32(1))
    THEN [s EXCEPT
            !.hash2 = IF Len(s.hash2) < spamSumLength
                      THEN Append(s.hash2, base64Chars[(s.p2[2] % 64) + 1])
                      ELSE s.hash2,
            !.p2 = hashInit]
    ELSE s

\* The first boundary test without the test of hash1's length
WriteBoundary1_NoCap(s, h, bs1, bs2) ==
    IF Mod32(h, bs1) = Sub32(bs1, U32(1))
    THEN WriteBoundary2(
           [s EXCEPT
              !.hash1 = Append(s.hash1, base64Chars[(s.p1[2] % 64) + 1]),
              !.p1 = hashInit],
           h, bs2)
    ELSE s

\* The first boundary test of Write
WriteBoundary1(s, h, bs1, bs2) ==
    IF Mod32(h, bs1) = Sub32(bs1, U32(1))
    THEN WriteBoundary2(
           [s EXCEPT
              !.hash1 = IF Len(s.hash1) < spamSumLength
                        THEN Append(s.hash1, base64Chars[(s.p1[2] % 64) + 1])
                        ELSE s.hash1,
              !.p1 = hashInit],
           h, bs2)
    ELSE s

\* One iteration of Write's loop on byte c.  s carries the state's fields and
\* the loop's local winIdx (0-based, as in the program).
WriteByte(s, c, bs1, bs2) ==
    LET h2  == Add32(Sub32(s.h2, s.h1), U32(windowSize * c))
        h1  == Sub32(Add32(s.h1, U32(c)), U32(s.window[s.winIdx + 1]))
        win == [s.window EXCEPT ![s.winIdx + 1] = c]
        wi  == IF s.winIdx + 1 = windowSize THEN 0 ELSE s.winIdx + 1
        n   == Add32(s.n, U32(1))
        h3  == Xor32Byte(Mul32Small(s.h3, 32), c)
        p1  == Xor32Byte(Mul32Prime(s.p1), c)
        p2  == Xor32Byte(Mul32Prime(s.p2), c)
        h   == Add32(Add32(h1, h2), h3)
        t   == [s EXCEPT !.h1 = h1, !.h2 = h2, !.h3 = h3, !.window = win,
                         !.winIdx = wi, !.n = n, !.p1 = p1, !.p2 = p2]
    IN  WriteBoundary1(t, h, bs1, bs2)

\* Write's loop "for _, c := range p" over p[lo..hi], in order.  The range is
\* halved rather than walked, and the left half is evaluated (the test on
\* blockSize, which the loop never changes, forces it) before the right half
\* starts: TLC evaluates operator arguments lazily, and a long input would
\* otherwise nest one pending evaluation per byte.
RECURSIVE WriteLoop(_, _, _, _, _, _)
WriteLoop(s, p, lo, hi, bs1, bs2) ==
    IF lo > hi THEN s
    ELSE IF lo = hi THEN WriteByte(s, p[lo], bs1, bs2)
    ELSE LET mid  == (lo + hi) \div 2
             left == WriteLoop(s, p, lo, mid, bs1, bs2)
         IN  IF left.blockSize = bs1
             THEN WriteLoop(left, p, mid + 1, hi, bs1, bs2)
             ELSE left

\* Write before its loop: the locals are loaded from the state, and winIdx is
\* n_idx % windowSize
WriteEnter(state) ==
    [ blockSize |-> state.blockSize,
      h1 |-> state.h1, h2 |-> state.h2, h3 |-> state.h3,
      window |-> state.window, n |-> state.n,
      p1 |-> state.p1, p2 |-> state.p2,
      hash1 |-> state.hash1, hash2 |-> state.hash2,
      winIdx |-> Mod32(state.n, U32(windowSize))[2] ]

\* Write after its loop: the locals are written back, winIdx is dropped
WriteBack(s) ==
    [ blockSize |-> s.blockSize,
      h1 |-> s.h1, h2 |-> s.h2, h3 |-> s.h3,
      window |-> s.window, n |-> s.n,
      p1 |-> s.p1, p2 |-> s.p2,
      hash1 |-> s.hash1, hash2 |-> s.hash2 ]

\* ssdeepState.Write(p): the state after the call (it returns len(p), nil)
Write(state, p) ==
    LET bs1 == state.blockSize
        bs2 == Mul32Small(bs1, 2)
    IN  WriteBack(WriteLoop(WriteEnter(state), p, 1, Len(p), bs1, bs2))

\* a * b modulo 2^32, b taken a byte at a time
Mul32(a, b) ==
    LET b0 == b[2] % 256
        b1 == b[2] \div 256
        b2 == b[1] % 256
        b3 == b[1] \div 256
    IN  Add32(Mul32Small(a, b0),
              Mul32Small(Add32(Mul32Small(a, b1),
                               Mul32Small(Add32(Mul32Small(a, b2),
                                                Mul32Small(Mul32Small(a, b3), 256)),
                                          256)),
                         256))

\* acc * 16777619^(the bits i..31 of cnt), sq being 16777619^(2^i): what cnt
\* rounds of "p = (p * 16777619) ^ 0" make of p.  (The test on acc2 and sq2 is
\* always true; it makes TLC evaluate them before the next round.)
RECURSIVE PrimePowLoop(_, _, _, _)
PrimePowLoop(acc, sq, cnt, i) ==
    IF i > 31 THEN acc
    ELSE LET acc2 == IF Bit32(cnt, i) = 1 THEN Mul32(acc, sq) ELSE acc
             sq2  == Mul32(sq, sq)
         IN  IF acc2[2] >= 0 /\ sq2[2] >= 0
             THEN PrimePowLoop(acc2, sq2, cnt, i + 1)
             ELSE acc2

\* The state after cnt zero bytes (cnt < 2^32, in any split into Write calls)
\* were written to newSSDeepState(blockSize): for c = 0 the loop leaves h1, h2, h3
\* and the window zero, so h = 0 and h % bs1 = 0 is no boundary; n counts the
\* bytes, and p1 and p2 are multiplied by 16777619 once per byte.
ZeroRun(blockSize, cnt) ==
    LET p == PrimePowLoop(hashInit, << fnvPrimeHi, fnvPrimeLo >>, cnt, 0)
    IN  [ newSSDeepState(blockSize) EXCEPT !.n = cnt, !.p1 = p, !.p2 = p ]

\* ssdeepState.Sum(): the digest string; the state is left as it was
Sum(state) ==
    LET r1 == IF state.p1 # hashInit /\ Len(state.hash1) < spamSumLength
              THEN Append(state.hash1, base64Chars[(state.p1[2] % 64) + 1])
              ELSE state.hash1
        r2 == IF state.p2 # hashInit /\ Len(state.hash2) < spamSumLength
              THEN Append(state.hash2, base64Chars[(state.p2[2] % 64) + 1])
              ELSE state.hash2
    IN  FormatU32(state.blockSize) \o << ":" >> \o r1 \o << ":" >> \o r2

\* ------------------------------------------------------------------------
\* strings.Split and strconv.Atoi
\* ------------------------------------------------------------------------
\* The positions of sep in s, and the j-th of them in increasing order
SepPositions(s, sep) == { i \in 1..Len(s) : s[i] = sep }

NthSep(s, sep, j) ==
    CHOOSE i \in SepPositions(s, sep) :
        Cardinality({ x \in SepPositions(s, sep) : x < i }) = j - 1

\* strings.Split(s, sep) for a one-character separator: one field more than
\* there are separators (the empty string yields one empty field)
Split(s, sep) ==
    LET k == Cardinality(SepPositions(s, sep))
    IN  [ j \in 1..(k + 1) |->
            LET from == IF j = 1 THEN 1 ELSE NthSep(s, sep, j - 1) + 1
                to   == IF j = k + 1 THEN Len(s) ELSE NthSep(s, sep, j) - 1
            IN  SubSeq(s, from, to) ]

\* int (64-bit): four 16-bit limbs, least significant first, two's complement
Zero64 == << 0, 0, 0, 0 >>

DigitVal(ch) == CHOOSE d \in 0..9 : Digits[d + 1] = ch

IsDigit(ch) == \E d \in 0..9 : Digits[d + 1] = ch

\* v * 10 + d on limbs; the fifth element is the carry out of 64 bits
MulAdd10(v, d) ==
    LET t1 == v[1] * 10 + d
        t2 == v[2] * 10 + (t1 \div W16)
        t3 == v[3] * 10 + (t2 \div W16)
        t4 == v[4] * 10 + (t3 \div W16)
    IN  << t1 % W16, t2 % W16, t3 % W16, t4 % W16, t4 \div W16 >>

\* The magnitude of a digit string as a uint64, or overflow (strconv.ParseUint)
RECURSIVE ParseMagnitude(_, _, _)
ParseMagnitude(ds, i, acc) ==
    IF i > Len(ds) \/ acc.ovf THEN acc
    ELSE LET r == MulAdd10(acc.v, DigitVal(ds[i]))
         IN  ParseMagnitude(ds, i + 1,
                 IF r[5] # 0 THEN [v |-> Zero64, ovf |-> TRUE]
                 ELSE [v |-> SubSeq(r, 1, 4), ovf |-> FALSE])

\* -v modulo 2^64
Neg64(v) ==
    LET t1 == (W16 - 1 - v[1]) + 1
        t2 == (W16 - 1 - v[2]) + (t1 \div W16)
        t3 == (W16 - 1 - v[3]) + (t2 \div W16)
        t4 == (W16 - 1 - v[4]) + (t3 \div W16)
    IN  << t1 % W16, t2 % W16, t3 % W16, t4 % W16 >>

\* v * 2 modulo 2^64 (Go's int multiplication wraps silently)
Dbl64(v) ==
    LET t1 == v[1] * 2
        t2 == v[2] * 2 + (t1 \div W16)
        t3 == v[3] * 2 + (t2 \div W16)
        t4 == v[4] * 2 + (t3 \div W16)
    IN  << t1 % W16, t2 % W16, t3 % W16, t4 % W16 >>

IsNeg64(v) == v[4] >= 32768

\* strconv.Atoi: an optional sign, then one or more decimal digits; a syntax
\* error otherwise, a range error outside [-2^63, 2^63).  On error the value is
\* not used by Compare.
Atoi(s) ==
    LET signed == Len(s) > 0 /\ s[1] \in {"+", "-"}
        neg    == Len(s) > 0 /\ s[1] = "-"
        ds     == IF signed THEN SubSeq(s, 2, Len(s)) ELSE s
        syntax == Len(ds) = 0 \/ \E i \in 1..Len(ds) : ~IsDigit(ds[i])
        mag    == ParseMagnitude(ds, 1, [v |-> Zero64, ovf |-> FALSE])
        range  == \/ mag.ovf
                  \/ ~neg /\ mag.v[4] >= 32768
                  \/ neg /\ IsNeg64(mag.v) /\ mag.v # << 0, 0, 0, 32768 >>
    IN  IF syntax \/ range THEN [err |-> TRUE, val |-> Zero64]
        ELSE [err |-> FALSE, val |-> IF neg THEN Neg64(mag.v) ELSE mag.v]

\* ------------------------------------------------------------------------
\* shrink, levenshtein, score, Compare
\* ------------------------------------------------------------------------
Min2(a, b) == IF a < b THEN a ELSE b
\* The two scores added up where the larger one is wanted
Max2_Sum(a, b) == a + b

Max2(a, b) == IF a > b THEN a ELSE b

\* The test of shrink looking two characters back, not three
shrinkKeeps_TwoBack(s, i) ==
    i < 4 \/ s[i] # s[i - 1] \/ s[i] # s[i - 2]

\* Whether shrink keeps s[i]: not the 4th or later of a run of equal characters
shrinkKeeps(s, i) ==
    i < 4 \/ s[i] # s[i - 1] \/ s[i] # s[i - 2] \/ s[i] # s[i - 3]

\* shrink(s, buf[:0]): the kept characters, in order
shrink(s) ==
    LET kept == { i \in 1..Len(s) : shrinkKeeps(s, i) }
    IN  [ j \in 1..Cardinality(kept) |->
            s[CHOOSE i \in kept : Cardinality({ x \in kept : x < i }) = j - 1] ]

\* levenshtein's inner loop, j = lo..hi, for row i of the table (i >= 1).
\* acc = [row, prev]: row[j+1] is the program's row[j].  The range is halved and
\* the left half is evaluated first (see WriteLoop).
levStep(acc, s1, s2, i, j) ==
    LET cost == IF s1[i] = s2[j] THEN 0 ELSE 1
        val  == Min2(Min2(acc.row[j + 1] + 1, acc.prev + 1), acc.row[j] + cost)
    IN  [ row |-> [acc.row EXCEPT ![j] = acc.prev], prev |-> val ]

RECURSIVE levInner(_, _, _, _, _, _)
levInner(acc, s1, s2, i, lo, hi) ==
    IF lo > hi THEN acc
    ELSE IF lo = hi THEN levStep(acc, s1, s2, i, lo)
    ELSE LET mid  == (lo + hi) \div 2
             left == levInner(acc, s1, s2, i, lo, mid)
         IN  IF left.prev >= 0
             THEN levInner(left, s1, s2, i, mid + 1, hi)
             ELSE left

\* One pass of the outer loop that does not store prev in row[n2]
levRow_NoLast(row, s1, s2, i) ==
    levInner([row |-> row, prev |-> i], s1, s2, i, 1, Len(s2)).row

\* One pass of the outer loop: prev := i, the inner loop, row[n2] = prev
levRow(row, s1, s2, i) ==
    LET acc == levInner([row |-> row, prev |-> i], s1, s2, i, 1, Len(s2))
    IN  [acc.row EXCEPT ![Len(s2) + 1] = acc.prev]

RECURSIVE levOuter(_, _, _, _, _)
levOuter(row, s1, s2, lo, hi) ==
    IF lo > hi THEN row
    ELSE IF lo = hi THEN levRow(row, s1, s2, lo)
    ELSE LET mid  == (lo + hi) \div 2
             left == levOuter(row, s1, s2, lo, mid)
         IN  IF Len(left) > 0
             THEN levOuter(left, s1, s2, mid + 1, hi)
             ELSE left

levenshtein(s1, s2) ==
    LET n1 == Len(s1)
        n2 == Len(s2)
    IN  IF n1 = 0 THEN n2
        ELSE IF n2 = 0 THEN n1
        ELSE levOuter([j \in 1..(n2 + 1) |-> j - 1], s1, s2, 1, n1)[n2 + 1]

\* score without the test for equal strings it starts with
score_NoShortcut(s1, s2) ==
    LET b1 == shrink(s1)
        b2 == shrink(s2)
        n1 == Len(b1)
        n2 == Len(b2)
    IN  IF n1 < windowSize \/ n2 < windowSize THEN 0
        ELSE LET d0    == levenshtein(b1, b2)
                 s     == (((d0 * spamSumLength) \div (n1 + n2)) * 100) \div spamSumLength
                 d1    == 100 - s
                 limit == (Min2(n1, n2) * 100) \div 14
                 d2    == IF (n1 < 11 \/ n2 < 11) /\ d1 > limit THEN limit ELSE d1
             IN  IF d2 < 0 THEN 0 ELSE d2

\* score that normalises the distance with one division, d * 100 / (n1 + n2)
score_OneDivision(s1, s2) ==
    IF s1 = s2 THEN 100
    ELSE LET b1 == shrink(s1)
             b2 == shrink(s2)
             n1 == Len(b1)
             n2 == Len(b2)
         IN  IF n1 < windowSize \/ n2 < windowSize THEN 0
             ELSE LET d0    == levenshtein(b1, b2)
                      s     == (d0 * 100) \div (n1 + n2)
                      d1    == 100 - s
                      limit == (Min2(n1, n2) * 100) \div 14
                      d2    == IF (n1 < 11 \/ n2 < 11) /\ d1 > limit THEN limit ELSE d1
                  IN  IF d2 < 0 THEN 0 ELSE d2

\* score without the test of the shrunk lengths against windowSize
score_NoMinLength(s1, s2) ==
    IF s1 = s2 THEN 100
    ELSE LET b1 == shrink(s1)
             b2 == shrink(s2)
             n1 == Len(b1)
             n2 == Len(b2)
             d0    == levenshtein(b1, b2)
             s     == (((d0 * spamSumLength) \div Max2(n1 + n2, 1)) * 100) \div spamSumLength
             d1    == 100 - s
             limit == (Min2(n1, n2) * 100) \div 14
             d2    == IF (n1 < 11 \/ n2 < 11) /\ d1 > limit THEN limit ELSE d1
         IN  IF d2 < 0 THEN 0 ELSE d2

\* score(s1, s2, _).  The products are uint32 in the program; with segments
\* shorter than 2^25 characters they stay below 2^32 and nothing wraps.
score(s1, s2) ==
    IF s1 = s2 THEN 100
    ELSE LET b1 == shrink(s1)
             b2 == shrink(s2)
             n1 == Len(b1)
             n2 == Len(b2)
         IN  IF n1 < windowSize \/ n2 < windowSize THEN 0
             ELSE LET d0    == levenshtein(b1, b2)
                      s     == (((d0 * spamSumLength) \div (n1 + n2)) * 100) \div spamSumLength
                      d1    == 100 - s
                      limit == (Min2(n1, n2) * 100) \div 14
                      d2    == IF (n1 < 11 \/ n2 < 11) /\ d1 > limit THEN limit ELSE d1
                  IN  IF d2 < 0 THEN 0 ELSE d2

NoError == "nil"
ErrInvalidFormat == "invalid hash format"
ErrAtoi == "strconv.Atoi"

\* Compare without the rule for saturated first segments
Compare_NoSaturation(hash1, hash2) ==
    LET p1 == Split(hash1, ":")
        p2 == Split(hash2, ":")
    IN  IF Len(p1) # 3 \/ Len(p2) # 3
        THEN [score |-> 0, err |-> ErrInvalidFormat]
        ELSE
          LET a1 == Atoi(p1[1])
              a2 == Atoi(p2[1])
              b1 == a1.val
              b2 == a2.val
          IN  IF a1.err \/ a2.err THEN [score |-> 0, err |-> ErrAtoi]
              ELSE IF b1 # b2 /\ b1 # Dbl64(b2) /\ b2 # Dbl64(b1)
                   THEN [score |-> 0, err |-> NoError]
              ELSE IF b1 = b2
                   THEN [score |-> Max2(score(p1[2], p2[2]), score(p1[3], p2[3])),
                         err |-> NoError]
              ELSE IF b1 = Dbl64(b2)
                   THEN [score |-> score(p1[2], p2[3]), err |-> NoError]
                   ELSE [score |-> score(p1[3], p2[2]), err |-> NoError]

\* Compare whose last case scores the two first segments
Compare_DefaultFirstSegs(hash1, hash2) ==
    LET p1 == Split(hash1, ":")
        p2 == Split(hash2, ":")
    IN  IF Len(p1) # 3 \/ Len(p2) # 3
        THEN [score |-> 0, err |-> ErrInvalidFormat]
        ELSE
          LET a1 == Atoi(p1[1])
              a2 == Atoi(p2[1])
              b1 == a1.val
              b2 == a2.val
              s1_1 == p1[2]
              s1_2 == p1[3]
              s2_1 == p2[2]
              s2_2 == p2[3]
          IN  IF a1.err \/ a2.err THEN [score |-> 0, err |-> ErrAtoi]
              ELSE IF b1 # b2 /\ b1 # Dbl64(b2) /\ b2 # Dbl64(b1)
                   THEN [score |-> 0, err |-> NoError]
              ELSE IF b1 = b2
                   THEN LET score1 == score(s1_1, s2_1)
                            score2 == score(s1_2, s2_2)
                        IN  IF /\ Len(s1_1) >= spamSumLength
                               /\ Len(s2_1) >= spamSumLength
                               /\ score2 > 0
                            THEN [score |-> score2, err |-> NoError]
                            ELSE [score |-> Max2(score1, score2), err |-> NoError]
              ELSE IF b1 = Dbl64(b2)
                   THEN [score |-> score(s1_1, s2_2), err |-> NoError]
                   ELSE [score |-> score(s1_1, s2_1), err |-> NoError]

\* Compare(hash1, hash2): the returned (score, error)
Compare(hash1, hash2) ==
    LET p1 == Split(hash1, ":")
        p2 == Split(hash2, ":")
    IN  IF Len(p1) # 3 \/ Len(p2) # 3
        THEN [score |-> 0, err |-> ErrInvalidFormat]
        ELSE
          LET a1 == Atoi(p1[1])
              a2 == Atoi(p2[1])
              b1 == a1.val
              b2 == a2.val
              s1_1 == p1[2]
              s1_2 == p1[3]
              s2_1 == p2[2]
              s2_2 == p2[3]
          IN  IF a1.err \/ a2.err THEN [score |-> 0, err |-> ErrAtoi]
              ELSE IF b1 # b2 /\ b1 # Dbl64(b2) /\ b2 # Dbl64(b1)
                   THEN [score |-> 0, err |-> NoError]
              ELSE IF b1 = b2
                   THEN LET score1 == score(s1_1, s2_1)
                            score2 == score(s1_2, s2_2)
                        IN  IF /\ Len(s1_1) >= spamSumLength
                               /\ Len(s2_1) >= spamSumLength
                               /\ score2 > 0
                            THEN [score |-> score2, err |-> NoError]
                            ELSE [score |-> Max2(score1, score2), err |-> NoError]
              ELSE IF b1 = Dbl64(b2)
                   THEN [score |-> score(s1_1, s2_2), err |-> NoError]
                   ELSE [score |-> score(s1_2, s2_1), err |-> NoError]

\* ------------------------------------------------------------------------
\* estimateBlockSize, sumWithFixedSize, Bytes
\* ------------------------------------------------------------------------
\* A non-negative int below 2^31 as an int64
I64(n) == << n % W16, (n \div W16) % W16, 0, 0 >>

\* uint64(blockSize) * spamSumLength
Mul64Len(b) ==
    LET t1 == b[2] * spamSumLength
        t2 == b[1] * spamSumLength + (t1 \div W16)
    IN  << t1 % W16, t2 % W16, t2 \div W16, 0 >>

\* a < b as uint64
Lt64(a, b) ==
    \/ a[4] < b[4]
    \/ a[4] = b[4] /\ a[3] < b[3]
    \/ a[4] = b[4] /\ a[3] = b[3] /\ a[2] < b[2]
    \/ a[4] = b[4] /\ a[3] = b[3] /\ a[2] = b[2] /\ a[1] < b[1]

\* The outcome of a call that never returns
NeverReturns == << -1, -1 >>

\* The loop of estimateBlockSize.  blockSize is a uint32 and wraps when doubled:
\* once it is 0 the loop condition stays true for ever.
RECURSIVE estimateLoop(_, _)
estimateLoop(blockSize, size) ==
    IF Lt64(Mul64Len(blockSize), size)
    THEN IF blockSize = Zero32 THEN NeverReturns
         ELSE estimateLoop(Mul32Small(blockSize, 2), size)
    ELSE blockSize

\* estimateBlockSize with the doubling loop left out
estimateBlockSize_NoDoubling(size) == U32(minBlockSize)

\* estimateBlockSize(size), size an int64 read as uint64
estimateBlockSize(size) == estimateLoop(U32(minBlockSize), size)

ErrEmptyData == "ssdeep: empty data"

IsPos64(v) == ~IsNeg64(v) /\ v # Zero64

\* Bytes(data) = sumWithFixedSize(bytes.NewReader(data), int64(len(data))):
\* bytes.Reader implements io.WriterTo, so io.Copy hands the whole slice to one
\* Write call.
Bytes(data) ==
    LET fixedSize == I64(Len(data))
    IN  IF ~IsPos64(fixedSize) THEN [digest |-> << >>, err |-> ErrEmptyData]
        ELSE LET blockSize == estimateBlockSize(fixedSize)
             IN  [digest |-> Sum(Write(newSSDeepState(blockSize), data)),
                  err |-> NoError]

\* ------------------------------------------------------------------------
\* Bounds of the model
\* ------------------------------------------------------------------------
\* The cache thresholds and the read-buffer length, scaled down so that TLC can
\* enumerate sources longer than the thresholds.  The program's values are
\* minCachedSize = 128 << 10, defaultCachedSize = 4 << 20 and 32*1024-byte read
\* buffers (io.Copy's and ReadAll's); the scaled values keep their order:
\* minBlockSize < readBufSize < minCachedSize < defaultCachedSize.
readBufSize == 4
minCachedSize == 5
defaultCachedSize == 9
\* Short sources: every byte sequence over SrcBytes up to this length
MaxSrcLen == 3
\* Writes of the hasher specification: chunks up to MaxChunk bytes, MaxFed bytes
\* in all, the first MaxFree of them free, the rest alternating over SatBytes
MaxChunk == 2
MaxFed == 70
MaxFree == 2

\* Two byte values whose alternation hits a boundary of both block sizes 3 and 6
\* at nearly every byte, so that both output buffers fill up within MaxFed bytes
SatBytes == { 44, 139 }
SrcBytes == { 44, 139 }
HashBytes == { 44, 139, 255 }

RECURSIVE SeqsUpTo(_, _)
SeqsUpTo(S, n) ==
    IF n = 0 THEN { << >> }
    ELSE LET shorter == SeqsUpTo(S, n - 1)
         IN  shorter \cup { Append(q, x) : q \in { r \in shorter : Len(r) = n - 1 }, x \in S }

\* One byte more than the smallest block size covers
LongSource ==
    [ i \in 1..(minBlockSize * spamSumLength + 1) |-> IF i % 2 = 1 THEN 44 ELSE 139 ]

\* A source as long as the smallest spill threshold, and one a byte longer
EdgeSource == [ i \in 1..minCachedSize |-> IF i % 2 = 1 THEN 44 ELSE 139 ]
OverEdgeSource == EdgeSource \o << 44 >>

\* The 43 bytes "The quick brown fox jumps over the lazy dog"
FoxSource ==
    << 84, 104, 101, 32, 113, 117, 105, 99, 107, 32, 98, 114,
       111, 119, 110, 32, 102, 111, 120, 32, 106, 117, 109, 112,
       115, 32, 111, 118, 101, 114, 32, 116, 104, 101, 32, 108,
       97, 122, 121, 32, 100, 111, 103 >>

Sources ==
    SeqsUpTo(SrcBytes, MaxSrcLen) \cup { LongSource, EdgeSource, OverEdgeSource, FoxSource }

\* ------------------------------------------------------------------------
\* Options
\* ------------------------------------------------------------------------
\* The options of a Stream call, by type: each field is << >> (the option is not
\* passed) or << v >> (WithFixedSize(v), WithCachedSize(v), WithCleanup()).  The
\* three types write different fields of hashOptions, so their order in the
\* call's argument list does not matter.
Options(fixed, cached, cleanup) == [size |-> fixed, cachedSize |-> cached, cleanup |-> cleanup]

\* sizeOption.apply
sizeOption_apply(o, h) == IF IsPos64(o) THEN [h EXCEPT !.size = o] ELSE h

\* cachedSizeOption.apply
cachedSizeOption_apply(o, h) == IF o > minBlockSize THEN [h EXCEPT !.cachedSize = o] ELSE h

\* cleanupOption.apply
cleanupOption_apply(o, h) == [h EXCEPT !.cleanup = o]

\* var opts = hashOptions{size: -1, cachedSize: defaultCachedSize}, then the loop
\* "for _, o := range options { o.apply(&opts) }"
streamOpts(o) ==
    LET h0 == [size |-> Neg64(I64(1)), cachedSize |-> defaultCachedSize, cleanup |-> FALSE]
        h1 == IF o.size = << >> THEN h0 ELSE sizeOption_apply(o.size[1], h0)
        h2 == IF o.cachedSize = << >> THEN h1 ELSE cachedSizeOption_apply(o.cachedSize[1], h1)
    IN  IF o.cleanup = << >> THEN h2 ELSE cleanupOption_apply(o.cleanup[1], h2)

NoOptions == Options(<< >>, << >>, << >>)

\* 3 * 2^36 + 1: the smallest size estimateBlockSize never returns for
HugeSize == << 1, 0, 48, 0 >>

FixedChoices == { << >> } \cup { << v >> : v \in { I64(0), I64(1), I64(2), I64(3), HugeSize } }

CachedChoices == { << >> } \cup { << v >> : v \in { 0, 3, 4, 7 } }

CleanupChoices == { << >>, << TRUE >> }

OptionLists ==
    { Options(f, c, u) : f \in FixedChoices, c \in CachedChoices, u \in CleanupChoices }

\* The option lists tried on the long source
LongOptionLists ==
    { Options(f, c, u) : f \in { << >>, << I64(1) >> },
                         c \in { << >>, << 4 >> },
                         u \in CleanupChoices }

\* ------------------------------------------------------------------------
\* State
\* ------------------------------------------------------------------------
VARIABLES
    src,      \* Stream: the bytes the source r delivers
    kind,     \* Stream: what r implements: "stat" (Stat), "seek" (io.ReadSeeker), "plain";
              \* "bytes" when the call is Bytes(src) and not Stream
    options,  \* Stream: the options passed
    pc,       \* where the call in progress stands
    opts,     \* Stream: hashOptions
    rpos,     \* Stream: bytes of r consumed so far
    state,    \* the ssdeepState in use
    sr,       \* Stream: the streamReader
    tmp,      \* the temporary file of the streamReader
    result,   \* Stream: the returned (digest, error)
    fed,      \* hasher specification: all bytes written to state so far
    single,   \* hasher specification: one Write call that is handed the same bytes
    trigger,  \* boundary-test specification: the value h the tests are applied to
    pool,     \* pool specification: the instances ssdeepStatePool holds
    heap,     \* pool specification: the ssdeepState instances allocated so far
    procs,    \* pool specification: the computations in progress
    hash1,    \* Compare: first argument
    hash2,    \* Compare: second argument
    cmp       \* Compare: the returned (score, error)

streamVars == << src, kind, options, pc, opts, rpos, sr, tmp, result >>
hashVars == << fed, single, trigger >>
cmpVars == << hash1, hash2, cmp >>
poolVars == << pool, heap, procs >>
vars == << src, kind, options, pc, opts, rpos, state, sr, tmp, result, fed, single,
           trigger, hash1, hash2, cmp, pool, heap, procs >>

NoState == reset(poolNew, Zero32)
NoReader == [cached |-> << >>, file |-> "nil", cachedSize |-> 0, size |-> 0,
             offset |-> 0, cleanup |-> FALSE]
NoFile == [exists |-> FALSE, open |-> FALSE, data |-> << >>, pos |-> 0]
NoResult == [digest |-> << >>, err |-> "pending"]
NoCmp == [score |-> -1, err |-> "pending"]

\* The variables a specification does not use stay at these values
StreamIdle ==
    /\ src = << >> /\ kind = "plain" /\ options = NoOptions /\ opts = streamOpts(NoOptions)
    /\ rpos = 0 /\ sr = NoReader /\ tmp = NoFile /\ result = NoResult
HashIdle == fed = << >> /\ single = NoState /\ trigger = Zero32
PoolIdle == pool = { } /\ heap = << >> /\ procs = << >>
CmpIdle == hash1 = << >> /\ hash2 = << >> /\ cmp = NoCmp

\* ------------------------------------------------------------------------
\* Stream
\* ------------------------------------------------------------------------
\* newStreamReader(r, cachedSize, cleanup)
newStreamReader(cachedSize, cleanup) ==
    [ cached |-> << >>, file |-> "nil",
      cachedSize |-> IF cachedSize < minCachedSize THEN minCachedSize ELSE cachedSize,
      size |-> 0, offset |-> 0, cleanup |-> cleanup ]

\* The size probe of Stream: Stat first, else Seek to the end and back
probeSize(o) ==
    IF ~IsPos64(o.size) /\ kind \in { "stat", "seek" }
    THEN [o EXCEPT !.size = I64(Len(src))]
    ELSE o

StreamInit ==
    /\ src \in Sources
    /\ kind \in { "stat", "seek", "plain", "bytes" }
    /\ options \in (IF kind = "bytes" THEN { NoOptions }
                    ELSE IF Len(src) > MaxSrcLen THEN LongOptionLists ELSE OptionLists)
    /\ pc = "start"
    /\ opts = streamOpts(NoOptions)
    /\ rpos = 0
    /\ state = NoState
    /\ sr = NoReader
    /\ tmp = NoFile
    /\ result = NoResult

\* Stream up to the first read: the options, the size probe, and either the
\* start of sumWithFixedSize or newStreamReader and the start of ReadAll
StreamStart ==
    /\ pc = "start"
    /\ kind # "bytes"
    /\ LET o == probeSize(streamOpts(options))
       IN  /\ opts' = o
           /\ IF ~IsNeg64(o.size)
              THEN \* sumWithFixedSize(r, opts.size)
                   IF ~IsPos64(o.size)
                   THEN /\ result' = [digest |-> << >>, err |-> ErrEmptyData]
                        /\ pc' = "done"
                        /\ UNCHANGED << state, sr >>
                   ELSE LET blockSize == estimateBlockSize(o.size)
                        IN  IF blockSize = NeverReturns
                            THEN /\ pc' = "spin"
                                 /\ UNCHANGED << state, sr, result >>
                            ELSE /\ state' = newSSDeepState(blockSize)
                                 /\ pc' = "copy"
                                 /\ UNCHANGED << sr, result >>
              ELSE /\ sr' = newStreamReader(o.cachedSize, o.cleanup)
                   /\ pc' = "readall"
                   /\ UNCHANGED << state, result >>
    /\ UNCHANGED << src, kind, options, rpos, tmp, hashVars, cmpVars, poolVars >>

\* io.Copy(state, r) in sumWithFixedSize, one round of the generic loop: r.Read
\* returns 1..len(buf) bytes, state.Write consumes them
CopyChunk ==
    /\ pc = "copy"
    /\ rpos < Len(src)
    /\ \E n \in 1..Min2(readBufSize, Len(src) - rpos) :
         /\ state' = Write(state, SubSeq(src, rpos + 1, rpos + n))
         /\ rpos' = rpos + n
    /\ UNCHANGED << src, kind, options, pc, opts, sr, tmp, result, hashVars, cmpVars, poolVars >>

\* io.Copy(state, r) when r implements io.WriterTo (bytes.Reader, strings.Reader):
\* one Write call with everything r holds
CopyWriterTo ==
    /\ pc = "copy"
    /\ rpos = 0
    /\ Len(src) > 0
    /\ state' = Write(state, src)
    /\ rpos' = Len(src)
    /\ UNCHANGED << src, kind, options, pc, opts, sr, tmp, result, hashVars, cmpVars, poolVars >>

\* r is at its end: io.Copy returns, sumWithFixedSize returns state.Sum()
CopyEOF ==
    /\ pc = "copy"
    /\ rpos = Len(src)
    /\ result' = [digest |-> Sum(state), err |-> NoError]
    /\ pc' = "done"
    /\ UNCHANGED << src, kind, options, opts, rpos, state, sr, tmp, hashVars, cmpVars, poolVars >>

\* switchToFile that creates the temporary file without the cached bytes
switchToFile_DropsCached(cached) ==
    [exists |-> TRUE, open |-> TRUE, data |-> << >>, pos |-> 0]

\* switchToFile: the temporary file is created and receives the cached bytes
switchToFile(cached) ==
    [exists |-> TRUE, open |-> TRUE, data |-> cached, pos |-> Len(cached)]

\* The spill test that already fires when the size reaches the threshold
needsSpill_AtThreshold(r, size) == r.file = "nil" /\ size >= r.cachedSize

\* ReadAll's test "sr.file == nil && sr.size > sr.cachedSize", size being sr.size
\* with the bytes just read counted in
needsSpill(r, size) == r.file = "nil" /\ size > r.cachedSize

\* One round of ReadAll's loop with the bytes buf read (n > 0), no step of it
\* failing: the reader and the temporary file it leaves
readAllStep(r, t, buf) ==
    LET size  == r.size + Len(buf)
        spill == needsSpill(r, size)
        r1    == IF spill THEN [r EXCEPT !.size = size, !.file = "tmp", !.cached = << >>]
                 ELSE [r EXCEPT !.size = size]
        t1    == IF spill THEN switchToFile(r.cached) ELSE t
    IN  IF r1.file # "nil"
        THEN [sr |-> r1, tmp |-> [t1 EXCEPT !.data = @ \o buf, !.pos = @ + Len(buf)]]
        ELSE [sr |-> [r1 EXCEPT !.cached = @ \o buf], tmp |-> t1]

\* ReadAll, one round of its loop with n > 0 bytes read
ReadAllChunk ==
    /\ pc = "readall"
    /\ rpos < Len(src)
    /\ \E n \in 1..Min2(readBufSize, Len(src) - rpos) :
         LET out == readAllStep(sr, tmp, SubSeq(src, rpos + 1, rpos + n))
         IN  /\ rpos' = rpos + n
             /\ sr' = out.sr
             /\ tmp' = out.tmp
    /\ UNCHANGED << src, kind, options, pc, opts, state, result, hashVars, cmpVars, poolVars >>

\* The step after ReadAll with a Reset that does not seek the file to its start
ReadAllEOF_NoRewind ==
    /\ pc = "readall"
    /\ rpos = Len(src)
    /\ LET blockSize == estimateBlockSize(I64(sr.size))
       IN  IF blockSize = NeverReturns
           THEN /\ pc' = "spin"
                /\ UNCHANGED << state, sr, tmp >>
           ELSE /\ state' = newSSDeepState(blockSize)
                /\ sr' = [sr EXCEPT !.offset = 0]
                /\ tmp' = tmp
                /\ pc' = "rehash"
    /\ UNCHANGED << src, kind, options, opts, rpos, result, hashVars, cmpVars, poolVars >>

\* ReadAll sees io.EOF and returns nil; then estimateBlockSize(sr.Size()),
\* newSSDeepState and sr.Reset()
ReadAllEOF ==
    /\ pc = "readall"
    /\ rpos = Len(src)
    /\ LET blockSize == estimateBlockSize(I64(sr.size))
       IN  IF blockSize = NeverReturns
           THEN /\ pc' = "spin"
                /\ UNCHANGED << state, sr, tmp >>
           ELSE /\ state' = newSSDeepState(blockSize)
                /\ sr' = [sr EXCEPT !.offset = 0]
                /\ tmp' = IF sr.file # "nil" THEN [tmp EXCEPT !.pos = 0] ELSE tmp
                /\ pc' = "rehash"
    /\ UNCHANGED << src, kind, options, opts, rpos, result, hashVars, cmpVars, poolVars >>

\* What sr.Read(p) has left to deliver, from the file or from memory
srRest ==
    IF sr.file # "nil" THEN SubSeq(tmp.data, tmp.pos + 1, Len(tmp.data))
    ELSE SubSeq(sr.cached, sr.offset + 1, Len(sr.cached))

\* io.Copy(state, sr), one round: sr.Read fills the buffer, state.Write consumes
RehashChunk ==
    /\ pc = "rehash"
    /\ Len(srRest) > 0
    /\ LET n == Min2(readBufSize, Len(srRest))
       IN  /\ state' = Write(state, SubSeq(srRest, 1, n))
           /\ sr' = [sr EXCEPT !.offset = @ + n]
           /\ tmp' = IF sr.file # "nil" THEN [tmp EXCEPT !.pos = @ + n] ELSE tmp
    /\ UNCHANGED << src, kind, options, pc, opts, rpos, result, hashVars, cmpVars, poolVars >>

\* streamReader.Close leaving the temporary file as it is
srClose_KeepsFile(r, f) == f

\* streamReader.Close of reader r: the temporary file f, if r has one, is closed
\* and removed (closing and removing it a second time changes nothing)
srClose(r, f) ==
    IF r.file # "nil" THEN [f EXCEPT !.open = FALSE, !.exists = FALSE] ELSE f

\* sr.Read returns io.EOF: Stream returns state.Sum(); the deferred sr.Close runs
RehashEOF ==
    /\ pc = "rehash"
    /\ Len(srRest) = 0
    /\ result' = [digest |-> Sum(state), err |-> NoError]
    /\ tmp' = srClose(sr, tmp)
    /\ sr' = [sr EXCEPT !.cached = << >>]
    /\ pc' = "done"
    /\ UNCHANGED << src, kind, options, opts, rpos, state, hashVars, cmpVars, poolVars >>

\* ------------------------------------------------------------------------
\* Stream: the steps that fail
\* ------------------------------------------------------------------------
ErrProbe == "Stat or Seek error"
ErrRead == "source read error"
ErrCreateTemp == "os.CreateTemp error"
ErrFileWrite == "temporary file write error"
ErrFileSeek == "temporary file seek error"
ErrFileRead == "temporary file read error"

\* The digest of the bytes hashed so far returned along with the error
failResult_PartialDigest(e) == [digest |-> Sum(state), err |-> e]

\* return "", err
failResult(e) == [digest |-> << >>, err |-> e]

\* The size probe fails: ri.Stat(), or one of the two rs.Seek calls
ProbeFail ==
    /\ pc = "start"
    /\ kind \in { "stat", "seek" }
    /\ ~IsPos64(streamOpts(options).size)
    /\ opts' = streamOpts(options)
    /\ result' = failResult(ErrProbe)
    /\ pc' = "done"
    /\ UNCHANGED << src, kind, options, rpos, state, sr, tmp, hashVars, cmpVars, poolVars >>

\* io.Copy(state, r) in sumWithFixedSize: r.Read returns n >= 0 bytes and an error
\* that is not io.EOF; io.Copy writes the bytes and returns the error
CopyFail ==
    /\ pc = "copy"
    /\ kind # "bytes"
    /\ \E n \in 0..Min2(readBufSize, Len(src) - rpos) :
         /\ state' = Write(state, SubSeq(src, rpos + 1, rpos + n))
         /\ rpos' = rpos + n
    /\ result' = failResult(ErrRead)
    /\ pc' = "done"
    /\ UNCHANGED << src, kind, options, opts, sr, tmp, hashVars, cmpVars, poolVars >>

\* ReadAll: sr.r.Read returns n >= 0 bytes and an error that is not io.EOF.  The
\* bytes are stored first, then ReadAll returns the error and the deferred
\* sr.Close runs.
ReadAllReadFail ==
    /\ pc = "readall"
    /\ \E n \in 0..Min2(readBufSize, Len(src) - rpos) :
         LET out == IF n = 0 THEN [sr |-> sr, tmp |-> tmp]
                    ELSE readAllStep(sr, tmp, SubSeq(src, rpos + 1, rpos + n))
         IN  /\ rpos' = rpos + n
             /\ sr' = [out.sr EXCEPT !.cached = << >>]
             /\ tmp' = srClose(out.sr, out.tmp)
    /\ result' = failResult(ErrRead)
    /\ pc' = "done"
    /\ UNCHANGED << src, kind, options, opts, state, hashVars, cmpVars, poolVars >>

\* ReadAll: the read that needs the temporary file finds os.CreateTemp failing;
\* sr.file stays nil
CreateTempFail ==
    /\ pc = "readall"
    /\ rpos < Len(src)
    /\ \E n \in 1..Min2(readBufSize, Len(src) - rpos) :
         /\ needsSpill(sr, sr.size + n)
         /\ rpos' = rpos + n
         /\ sr' = [sr EXCEPT !.size = @ + n, !.cached = << >>]
    /\ tmp' = srClose(sr, tmp)
    /\ result' = failResult(ErrCreateTemp)
    /\ pc' = "done"
    /\ UNCHANGED << src, kind, options, opts, state, hashVars, cmpVars, poolVars >>

\* switchToFile: the file is created, writing the cached bytes to it fails;
\* switchToFile closes and removes the file and leaves sr.file set
SwitchWriteFail ==
    /\ pc = "readall"
    /\ rpos < Len(src)
    /\ Len(sr.cached) > 0
    /\ \E n \in 1..Min2(readBufSize, Len(src) - rpos) :
         /\ needsSpill(sr, sr.size + n)
         /\ rpos' = rpos + n
         /\ LET r1 == [sr EXCEPT !.size = @ + n, !.file = "tmp"]
                t1 == [exists |-> FALSE, open |-> FALSE, data |-> << >>, pos |-> 0]
            IN  /\ sr' = [r1 EXCEPT !.cached = << >>]
                /\ tmp' = srClose(r1, t1)
    /\ result' = failResult(ErrFileWrite)
    /\ pc' = "done"
    /\ UNCHANGED << src, kind, options, opts, state, hashVars, cmpVars, poolVars >>

\* ReadAll: sr.file.Write(buf[:n]) fails, in the round that created the file or
\* in a later one
FileWriteFail ==
    /\ pc = "readall"
    /\ rpos < Len(src)
    /\ \E n \in 1..Min2(readBufSize, Len(src) - rpos) :
         LET size  == sr.size + n
             spill == needsSpill(sr, size)
             r1    == IF spill
                      THEN [sr EXCEPT !.size = size, !.file = "tmp", !.cached = << >>]
                      ELSE [sr EXCEPT !.size = size]
             t1    == IF spill THEN switchToFile(sr.cached) ELSE tmp
         IN  /\ r1.file # "nil"
             /\ rpos' = rpos + n
             /\ sr' = [r1 EXCEPT !.cached = << >>]
             /\ tmp' = srClose(r1, t1)
    /\ result' = failResult(ErrFileWrite)
    /\ pc' = "done"
    /\ UNCHANGED << src, kind, options, opts, state, hashVars, cmpVars, poolVars >>

\* ReadAll returned nil; sr.Reset fails at sr.file.Seek
ResetFail ==
    /\ pc = "readall"
    /\ rpos = Len(src)
    /\ sr.file # "nil"
    /\ estimateBlockSize(I64(sr.size)) # NeverReturns
    /\ state' = newSSDeepState(estimateBlockSize(I64(sr.size)))
    /\ sr' = [sr EXCEPT !.offset = 0, !.cached = << >>]
    /\ tmp' = srClose(sr, tmp)
    /\ result' = failResult(ErrFileSeek)
    /\ pc' = "done"
    /\ UNCHANGED << src, kind, options, opts, rpos, hashVars, cmpVars, poolVars >>

\* io.Copy(state, sr): sr.file.Read fails after n >= 0 bytes
RehashFail ==
    /\ pc = "rehash"
    /\ sr.file # "nil"
    /\ \E n \in 0..Min2(readBufSize, Len(srRest)) :
         /\ state' = Write(state, SubSeq(srRest, 1, n))
         /\ sr' = [sr EXCEPT !.offset = @ + n, !.cached = << >>]
         /\ tmp' = srClose(sr, [tmp EXCEPT !.pos = @ + n])
    /\ result' = failResult(ErrFileRead)
    /\ pc' = "done"
    /\ UNCHANGED << src, kind, options, opts, rpos, hashVars, cmpVars, poolVars >>

\* A call of Bytes(src)
BytesCall ==
    /\ pc = "start"
    /\ kind = "bytes"
    /\ result' = Bytes(src)
    /\ pc' = "done"
    /\ UNCHANGED << src, kind, options, opts, rpos, state, sr, tmp, hashVars, cmpVars, poolVars >>

Init == StreamInit /\ HashIdle /\ CmpIdle /\ PoolIdle

Next ==
    \/ StreamStart
    \/ BytesCall
    \/ CopyChunk
    \/ CopyWriterTo
    \/ CopyEOF
    \/ ReadAllChunk
    \/ ReadAllEOF
    \/ RehashChunk
    \/ RehashEOF
    \/ ProbeFail
    \/ CopyFail
    \/ ReadAllReadFail
    \/ CreateTempFail
    \/ SwitchWriteFail
    \/ FileWriteFail
    \/ ResetFail
    \/ RehashFail

\* Stream and Bytes calls on every source, kind of source and option list of the bounds
Spec == Init /\ [][Next]_vars

\* ------------------------------------------------------------------------
\* The hasher on its own: newSSDeepState, then any sequence of Write calls
\* ------------------------------------------------------------------------
\* 3 and 3 * 2^30, the smallest and the largest block size estimateBlockSize returns
HashBlockSizes == { U32(minBlockSize), << 49152, 0 >> }

\* The byte sequences fed in all: at most MaxFed bytes, the first MaxFree free,
\* the rest alternating over SatBytes
FedAllowed(f) ==
    /\ Len(f) <= MaxFed
    /\ \A i \in (MaxFree + 1)..Len(f) : f[i] \in SatBytes /\ f[i] # f[i - 1]

\* Five bytes that take p = (p * 16777619) ^ c from hashInit back to hashInit,
\* none of them a boundary of block size 3
ReturnBytes == << 219, 153, 219, 249, 10 >>

\* The zero bytes written before the bytes of fed: none, or 2^32 - 2 of them, which
\* leave the counter n two bytes short of wrapping
NearWrap == << 65535, 65534 >>
HashStarts == { Zero32, NearWrap }

\* state is the instance the Write calls are made on.  single is the one Write
\* call that is handed all the bytes at once, in its loop, with its local winIdx.
HashInit ==
    /\ state \in { ZeroRun(bs, cnt) : bs \in HashBlockSizes, cnt \in HashStarts }
    /\ fed = << >>
    /\ single = WriteEnter(state)
    /\ trigger = Zero32
    /\ pc = "hash"

HashWrite ==
    /\ pc = "hash"
    /\ \E p \in SeqsUpTo(HashBytes, MaxChunk) \cup { ReturnBytes } :
         /\ FedAllowed(fed \o p) \/ fed \o p = ReturnBytes
         /\ state' = Write(state, p)
         /\ single' = WriteLoop(single, p, 1, Len(p),
                                single.blockSize, Mul32Small(single.blockSize, 2))
         /\ fed' = fed \o p
    /\ UNCHANGED << streamVars, trigger, cmpVars, poolVars >>

InitHash == HashInit /\ StreamIdle /\ CmpIdle /\ PoolIdle

SpecHash == InitHash /\ [][HashWrite]_vars

\* ------------------------------------------------------------------------
\* The pool: computations that take their ssdeepState from ssdeepStatePool, write
\* their bytes, call Sum, and hand the instance back with state.Close
\* ------------------------------------------------------------------------
\* The computations that run side by side
Procs == { 1, 2 }

\* The byte sequences they hash: every non-empty one over SrcBytes up to this length
MaxPoolLen == 2
PoolData == SeqsUpTo(SrcBytes, MaxPoolLen) \ { << >> }

\* ssdeepStatePool.Get taking instance id out of the pool that is always handed out
\* again
poolGet_NoRemove(pl, id) == pl

\* ssdeepStatePool.Get taking instance id out of the pool, ssdeepStatePool.Put
\* putting it in
poolGet(pl, id) == pl \ { id }
poolPut(pl, id) == pl \cup { id }

\* The instances Get may return: a pooled one, or with the pool empty the one New
\* allocates.  (sync.Pool may also drop pooled instances; Get then calls New as
\* with an empty pool.)
Gettable == IF pool = { } THEN { Len(heap) + 1 } ELSE pool

PoolInit ==
    /\ pool = { }
    /\ heap = << >>
    /\ procs \in [ Procs -> { [pc |-> "idle", id |-> 0, data |-> d, pos |-> 0, digest |-> << >>]
                              : d \in PoolData } ]
    /\ pc = "pool"
    /\ state = NoState

\* newSSDeepState(estimateBlockSize(len(data))) in computation p
NewState(p) ==
    /\ pc = "pool"
    /\ procs[p].pc \in { "idle", "closed" }
    /\ \E id \in Gettable :
         LET got == IF id \in pool THEN heap[id] ELSE poolNew
             st  == reset(got, estimateBlockSize(I64(Len(procs[p].data))))
         IN  /\ pool' = poolGet(pool, id)
             /\ heap' = IF id \in pool THEN [heap EXCEPT ![id] = st] ELSE Append(heap, st)
             /\ procs' = [procs EXCEPT ![p] = [@ EXCEPT !.pc = "write", !.id = id,
                                                          !.pos = 0, !.digest = << >>]]
    /\ UNCHANGED << streamVars, state, hashVars, cmpVars >>

\* One Write call of computation p on its instance
PoolWrite(p) ==
    /\ pc = "pool"
    /\ procs[p].pc = "write"
    /\ procs[p].pos < Len(procs[p].data)
    /\ \E n \in 1..Min2(MaxChunk, Len(procs[p].data) - procs[p].pos) :
         /\ heap' = [heap EXCEPT ![procs[p].id] =
                        Write(@, SubSeq(procs[p].data, procs[p].pos + 1, procs[p].pos + n))]
         /\ procs' = [procs EXCEPT ![p] = [@ EXCEPT !.pos = @ + n]]
    /\ UNCHANGED << streamVars, state, hashVars, cmpVars, pool >>

\* Computation p has written all its bytes and calls Sum
PoolSum(p) ==
    /\ pc = "pool"
    /\ procs[p].pc = "write"
    /\ procs[p].pos = Len(procs[p].data)
    /\ procs' = [procs EXCEPT ![p] = [@ EXCEPT !.pc = "done",
                                                 !.digest = Sum(heap[procs[p].id])]]
    /\ UNCHANGED << streamVars, state, hashVars, cmpVars, pool, heap >>

\* state.Close() by computation p: the instance goes back to the pool
PoolClose(p) ==
    /\ pc = "pool"
    /\ procs[p].pc = "done"
    /\ pool' = poolPut(pool, procs[p].id)
    /\ procs' = [procs EXCEPT ![p] = [@ EXCEPT !.pc = "closed"]]
    /\ UNCHANGED << streamVars, state, hashVars, cmpVars, heap >>

InitPool == PoolInit /\ StreamIdle /\ HashIdle /\ CmpIdle

NextPool == \E p \in Procs : NewState(p) \/ PoolWrite(p) \/ PoolSum(p) \/ PoolClose(p)

SpecPool == InitPool /\ [][NextPool]_vars

\* ------------------------------------------------------------------------
\* Compare on pairs of strings
\* ------------------------------------------------------------------------
Join3(f, a, b) == f \o << ":" >> \o a \o << ":" >> \o b

\* Block-size fields Atoi accepts: 3, 6, 0, -3, -6 and -2^63
MinInt64Field ==
    << "-","9","2","2","3","3","7","2","0","3","6","8","5","4","7","7","5","8","0","8" >>
BlockFields ==
    { << "3" >>, << "6" >>, << "0" >>, << "-", "3" >>, << "-", "6" >>, MinInt64Field }

\* First segments: empty, two of length 7 one edit apart, and three saturated
\* ones: the alphabet, the alphabet with one character changed, and (65 long)
\* the alphabet behind a run of eight equal characters
SegAlpha == base64Chars
SegAlpha1 == [base64Chars EXCEPT ![5] = "A"]
SegRun == << "/", "/", "/", "/", "/", "/", "/", "/" >> \o SubSeq(base64Chars, 8, 64)
FirstSegs ==
    { << >>, << "A","B","C","D","E","F","G" >>, << "A","B","C","D","E","F","X" >>,
      SegAlpha, SegAlpha1, SegRun }

\* Second segments: empty and two of length 12 one edit apart
SecondSegs ==
    { << >>, << "A","B","C","D","E","F","G","H","I","J","K","L" >>,
      << "A","B","C","D","E","F","G","H","I","J","K","X" >> }

\* Strings Compare rejects: too few or too many fields, a block-size field that
\* is empty, not a number, or out of the range of int
Malformed ==
    { << >>, << "3", ":", "A" >>, << "3", ":", "A", ":", "B", ":", "C" >>,
      << ":", "A", ":", "B" >>, << "x", ":", "A", ":", "B" >>,
      << "3", "x", ":", "A", ":", "B" >>,
      Join3(<< "9" >> \o SubSeq(MinInt64Field, 2, 20), << "A" >>, << "B" >>) }

\* The pair of digests of TestCompareAgainstOfficialAlgorithm with block sizes 12
\* and 24
Fixture12 ==
    Join3(<< "1", "2" >>,
          << "h","A","n","z","B","9","W","p","8","+","3","v","E","+","v","P" >>,
          << "h","A","n","z","h","W","p","8","j","v","E","+","v","P" >>)
Fixture24 ==
    Join3(<< "2", "4" >>,
          << "h","A","n","z","h","W","p","8","j","v","E","+","v","P" >>,
          << "h","A","n","z","h","W","p","8","j","v","E","+","v","P" >>)

Digests ==
    { Join3(f, a, b) : f \in BlockFields, a \in FirstSegs, b \in SecondSegs }
        \cup Malformed \cup { Fixture12, Fixture24 }

CompareInit ==
    /\ hash1 \in Digests
    /\ hash2 \in Digests
    /\ cmp = NoCmp
    /\ pc = "compare"
    /\ state = NoState

CompareCall ==
    /\ pc = "compare"
    /\ cmp' = Compare(hash1, hash2)
    /\ pc' = "compared"
    /\ UNCHANGED << src, kind, options, opts, rpos, state, sr, tmp, result, hashVars,
                    hash1, hash2, poolVars >>

InitCompare == CompareInit /\ StreamIdle /\ HashIdle /\ PoolIdle

SpecCompare == InitCompare /\ [][CompareCall]_vars


\* ------------------------------------------------------------------------
\* Properties of Stream and Bytes (specification Spec)
\* ------------------------------------------------------------------------
\* A call that has returned
StreamDone == pc = "done" /\ kind # "bytes"
BytesDone == pc = "done" /\ kind = "bytes"

\* The caller passed no size, or the size the source really has
SizeHonest == options.size = << >> \/ options.size = << I64(Len(src)) >>

\* The call returned the error of a failed read, write, seek or file creation
IOFailed ==
    result.err \in { ErrProbe, ErrRead, ErrCreateTemp, ErrFileWrite, ErrFileSeek, ErrFileRead }

\* C1 (as the specification states it): whenever Stream has returned with no
\* step of it failing, for a source of any kind and any options that do not
\* misstate the size, the digest and the error it returned are those Bytes returns
\* for the source's bytes.
C1_StreamEqualsBytes ==
    (StreamDone /\ SizeHonest /\ ~IOFailed) => result = Bytes(src)

\* C2 (as the specification states it): Bytes never returns an error; for the
\* empty byte sequence it returns "3::", and Compare of that digest with itself
\* is 100.
C2_BytesNeverFails ==
    BytesDone =>
        /\ result.err = NoError
        /\ src = << >> =>
             /\ result.digest = << "3", ":", ":" >>
             /\ Compare(result.digest, result.digest) = [score |-> 100, err |-> NoError]

\* The block size a digest carries, as a uint32
DigestBlockSize(d) ==
    LET a == Atoi(Split(d, ":")[1])
    IN  << a.val[2], a.val[1] >>

\* 3, 6, 12, ... up to 3 * 2^30, the last one below 2^32
RECURSIVE Doublings(_)
Doublings(b) ==
    IF b[1] >= 32768 THEN { b } ELSE { b } \cup Doublings(Mul32Small(b, 2))
BlockSizeForms == Doublings(U32(minBlockSize))

\* The size the caller stated with WithFixedSize, when positive; else the number
\* of bytes of the source
StatedSize ==
    IF options.size # << >> /\ IsPos64(options.size[1]) THEN options.size[1]
    ELSE I64(Len(src))

\* C10 (as the specification states it): every digest Bytes or Stream returns
\* carries a block size 3 * 2^k with blockSize * 64 >= the number of bytes hashed
\* (a call that has returned without error has hashed all of src).
C10_CoversBytesHashed ==
    (pc = "done" /\ result.err = NoError) =>
        LET bs == DigestBlockSize(result.digest)
        IN  /\ bs \in BlockSizeForms
            /\ ~Lt64(Mul64Len(bs), I64(Len(src)))

\* C10 (amended): every digest Bytes or Stream returns carries a block size
\* 3 * 2^k with blockSize * 64 >= the size it was estimated from: the value of
\* WithFixedSize when the caller passed a positive one, else the number of bytes
\* of the source.
C10_CoversStatedSize ==
    (pc = "done" /\ result.err = NoError) =>
        LET bs == DigestBlockSize(result.digest)
        IN  /\ bs \in BlockSizeForms
            /\ ~Lt64(Mul64Len(bs), StatedSize)

\* C10 witness: an unsized source longer than 3 * 64 bytes, spilled to the
\* temporary file, came back with the block size doubled to 6
C10_Witness ==
    /\ pc = "done" /\ result.err = NoError
    /\ kind = "plain" /\ options.size = << >>
    /\ Len(src) > minBlockSize * spamSumLength
    /\ sr.file = "tmp"
    /\ DigestBlockSize(result.digest) = U32(2 * minBlockSize)

\* ------------------------------------------------------------------------
\* Properties of the hasher (specification SpecHash)
\* ------------------------------------------------------------------------
Alphabet == { base64Chars[i] : i \in 1..Len(base64Chars) }

InAlphabet(seg) == \A i \in 1..Len(seg) : seg[i] \in Alphabet

\* C9: after any sequence of Write calls both output buffers hold at most 64
\* characters of the alphabet, and Sum yields "{decimal blockSize}:{hash1}:{hash2}":
\* exactly two colons, the block size in decimal, and two segments of at most 64
\* characters of the alphabet, each beginning with the buffer it comes from.
C9_BuffersAndDigestForm ==
    pc = "hash" =>
        LET f  == Split(Sum(state), ":")
            bs == Atoi(f[1])
        IN  /\ Len(state.hash1) <= spamSumLength /\ InAlphabet(state.hash1)
            /\ Len(state.hash2) <= spamSumLength /\ InAlphabet(state.hash2)
            /\ Len(f) = 3
            /\ f[1] = FormatU32(state.blockSize)
            /\ ~bs.err /\ << bs.val[2], bs.val[1] >> = state.blockSize
            /\ bs.val[3] = 0 /\ bs.val[4] = 0
            /\ Len(f[2]) <= spamSumLength /\ InAlphabet(f[2])
            /\ Len(f[3]) <= spamSumLength /\ InAlphabet(f[3])
            /\ SubSeq(f[2], 1, Len(state.hash1)) = state.hash1
            /\ SubSeq(f[3], 1, Len(state.hash2)) = state.hash2

\* C9 witness: both buffers are full, and the byte written last hit a boundary of
\* both block sizes with both buffers full already
C9_Witness ==
    /\ pc = "hash"
    /\ Len(fed) > 0
    /\ Len(state.hash1) = spamSumLength /\ Len(state.hash2) = spamSumLength
    /\ state.p1 = hashInit /\ state.p2 = hashInit
    /\ LET before == Write(newSSDeepState(state.blockSize), SubSeq(fed, 1, Len(fed) - 1))
       IN  Len(before.hash1) = spamSumLength /\ Len(before.hash2) = spamSumLength

\* ------------------------------------------------------------------------
\* Properties of Compare (specification SpecCompare)
\* ------------------------------------------------------------------------
Compared == pc = "compared"

\* A non-empty string of decimal digits
Decimal(f) == Len(f) > 0 /\ \A i \in 1..Len(f) : IsDigit(f[i])

\* A digest string as the hasher writes them: three fields, a decimal block size
\* that fits a uint32, two segments of at most 64 characters of the alphabet
WellFormed(h) ==
    LET f == Split(h, ":")
    IN  /\ Len(f) = 3
        /\ Decimal(f[1])
        /\ LET a == Atoi(f[1]) IN ~a.err /\ a.val[3] = 0 /\ a.val[4] = 0
        /\ Len(f[2]) <= spamSumLength /\ InAlphabet(f[2])
        /\ Len(f[3]) <= spamSumLength /\ InAlphabet(f[3])

\* Both strings have three fields and block sizes Atoi accepts
BothParse ==
    /\ Len(Split(hash1, ":")) = 3 /\ ~Atoi(Split(hash1, ":")[1]).err
    /\ Len(Split(hash2, ":")) = 3 /\ ~Atoi(Split(hash2, ":")[1]).err

\* The block sizes and the segments of the two arguments, when both parse
BlockSize1 == Atoi(Split(hash1, ":")[1]).val
BlockSize2 == Atoi(Split(hash2, ":")[1]).val
Seg1A == Split(hash1, ":")[2]
Seg2A == Split(hash1, ":")[3]
Seg1B == Split(hash2, ":")[2]
Seg2B == Split(hash2, ":")[3]

\* a = 2 * b over the integers: b doubles without leaving the range of int64
ExactDouble(a, b) == a = Dbl64(b) /\ (b[4] < 16384 \/ b[4] >= 49152)

\* a < b as int64
Less64(a, b) == IF IsNeg64(a) # IsNeg64(b) THEN IsNeg64(a) ELSE Lt64(a, b)

\* C3: Compare(h, h) is 100, with no error, for every well-formed digest h.
C3_Identity ==
    (Compared /\ hash1 = hash2 /\ WellFormed(hash1)) =>
        cmp = [score |-> 100, err |-> NoError]

\* C3 witness: a well-formed digest with a saturated first segment and a
\* non-empty second segment was compared with itself
C3_Witness ==
    /\ Compared /\ hash1 = hash2 /\ WellFormed(hash1)
    /\ Len(Seg1A) = spamSumLength /\ Len(Seg2A) > 0
    /\ cmp.score = 100

\* C4 (as the specification states it): Compare returns an error and score 0
\* whenever either argument does not have exactly three fields or has a
\* block-size field that is not a non-negative decimal integer.
C4_RejectsMalformed ==
    (/\ Compared
     /\ \E h \in { hash1, hash2 } :
          Len(Split(h, ":")) # 3 \/ ~Decimal(Split(h, ":")[1]))
        => (cmp.err # NoError /\ cmp.score = 0)

\* C5: whenever Compare returns no error its score is in 0..100.
C5_ScoreRange ==
    (Compared /\ cmp.err = NoError) => cmp.score \in 0..100

\* C5 witness: two different digests, one with a first segment longer than 64
\* characters, got a score strictly between 0 and 100
C5_Witness ==
    /\ Compared /\ cmp.err = NoError
    /\ Len(Seg1A) > spamSumLength
    /\ cmp.score > 0 /\ cmp.score < 100

\* C6 (as the specification states it): when both digests parse and neither
\* block size equals the other or its double, Compare returns 0 with no error.
C6_UnrelatedBlockSizes ==
    (/\ Compared /\ BothParse
     /\ BlockSize1 # BlockSize2
     /\ ~ExactDouble(BlockSize1, BlockSize2)
     /\ ~ExactDouble(BlockSize2, BlockSize1))
        => cmp = [score |-> 0, err |-> NoError]

\* C7: with equal block sizes Compare returns the larger of the two segment
\* scores, except that with both first segments of length >= 64 and a positive
\* second-segment score it returns the second-segment score.
C7_EqualBlockSizes ==
    (Compared /\ BothParse /\ BlockSize1 = BlockSize2) =>
        LET score1 == score(Seg1A, Seg1B)
            score2 == score(Seg2A, Seg2B)
        IN  /\ cmp.err = NoError
            /\ cmp.score = IF /\ Len(Seg1A) >= spamSumLength
                              /\ Len(Seg1B) >= spamSumLength
                              /\ score2 > 0
                           THEN score2
                           ELSE IF score1 > score2 THEN score1 ELSE score2

\* C7 witness: equal block sizes, both first segments saturated, and the
\* second-segment score, positive but the lower of the two, was returned
C7_Witness ==
    /\ Compared /\ BothParse /\ BlockSize1 = BlockSize2
    /\ Len(Seg1A) >= spamSumLength /\ Len(Seg1B) >= spamSumLength
    /\ score(Seg2A, Seg2B) > 0
    /\ score(Seg1A, Seg1B) > score(Seg2A, Seg2B)
    /\ cmp.score = score(Seg2A, Seg2B)

\* C8 (as the specification states it): when one block size is exactly double
\* the other, Compare returns the score of the first segment of the digest with
\* the larger block size against the second segment of the other digest; for the
\* pair of digests with block sizes 12 and 24 of the tests that is 100.
C8_DoubleBlockSize ==
    /\ (/\ Compared /\ BothParse
        /\ BlockSize1 # BlockSize2
        /\ ExactDouble(BlockSize1, BlockSize2) \/ ExactDouble(BlockSize2, BlockSize1))
           => /\ cmp.err = NoError
              /\ cmp.score = IF Less64(BlockSize2, BlockSize1)
                             THEN score(Seg1A, Seg2B)
                             ELSE score(Seg1B, Seg2A)
    /\ (Compared /\ hash1 = Fixture12 /\ hash2 = Fixture24) => cmp.score = 100

\* ------------------------------------------------------------------------
\* Properties of Stream's failures and of the streamReader (specification Spec)
\* ------------------------------------------------------------------------
\* C11: when Stream has returned, with a digest or with the error of whichever
\* step failed, no temporary file exists and none is open.
C11_TempFileReleased ==
    pc = "done" => (~tmp.exists /\ ~tmp.open)

\* C11 witness: Stream returned the error of a read of the temporary file, which
\* had been created and written, and the file is gone
C11_Witness ==
    /\ pc = "done" /\ result.err = ErrFileRead
    /\ sr.file = "tmp" /\ Len(tmp.data) > 0
    /\ ~tmp.exists /\ ~tmp.open

\* C12: whenever Stream returns an error it returns the empty string with it, and
\* whenever it returns a digest the source has been read to its end.
C12_NoPartialDigest ==
    StreamDone =>
        /\ result.err # NoError => result.digest = << >>
        /\ result.err = NoError => (rpos = Len(src) /\ result.digest # << >>)
        /\ IOFailed \/ result.err \in { NoError, ErrEmptyData }

\* C12 witness: a read of the source failed after bytes had been hashed, and
\* Stream returned the error and the empty string
C12_Witness ==
    /\ StreamDone /\ result.err = ErrRead
    /\ rpos > 0 /\ state.n # Zero32
    /\ result.digest = << >>

\* ------------------------------------------------------------------------
\* Recycled states and concurrent computations (SpecPool)
\* ------------------------------------------------------------------------
\* Computation p holds an instance: from newSSDeepState until state.Close
Holding(p) == procs[p].pc \in { "write", "done" }

\* Computation p has its digest
HasDigest(p) == procs[p].pc \in { "done", "closed" }

\* The state a computation over d starts from when its instance is newly allocated
FreshFor(d) == reset(poolNew, estimateBlockSize(I64(Len(d))))

\* C13: hashing the same byte sequence twice yields identical digests, also when
\* the second computation runs on a state recycled from the pool after an earlier
\* use: right after reset the state equals a freshly allocated one (rolling words,
\* window and counter zero, p1 = p2 = hashInit, both output buffers empty).
C13_RecycledIsFresh ==
    pc = "pool" =>
        /\ \A p \in Procs :
             (procs[p].pc = "write" /\ procs[p].pos = 0) =>
                 /\ heap[procs[p].id] = FreshFor(procs[p].data)
                 /\ heap[procs[p].id].n = Zero32
                 /\ heap[procs[p].id].p1 = hashInit /\ heap[procs[p].id].p2 = hashInit
                 /\ heap[procs[p].id].hash1 = << >> /\ heap[procs[p].id].hash2 = << >>
        /\ \A p, q \in Procs :
             (HasDigest(p) /\ HasDigest(q) /\ procs[p].data = procs[q].data) =>
                 procs[p].digest = procs[q].digest

\* A computation finished on the instance another computation over the same two
\* bytes used and closed before, with the same digest
C13_Witness ==
    /\ pc = "pool"
    /\ \E p, q \in Procs :
         /\ p # q
         /\ procs[p].pc = "done" /\ procs[q].pc = "closed"
         /\ procs[p].id = procs[q].id
         /\ procs[p].data = procs[q].data /\ Len(procs[p].data) = MaxPoolLen
         /\ heap[procs[p].id].n # Zero32
         /\ procs[p].digest = procs[q].digest /\ procs[p].digest # << >>

\* C14: in every interleaving of concurrent computations no instance is held by
\* two in-progress computations or is in the pool while held, and every
\* computation returns the digest it returns when run alone.
C14_ExclusiveAndAlone ==
    pc = "pool" =>
        /\ \A p, q \in Procs :
             (p # q /\ Holding(p) /\ Holding(q)) => procs[p].id # procs[q].id
        /\ \A p \in Procs : Holding(p) => procs[p].id \notin pool
        /\ \A p \in Procs : HasDigest(p) => procs[p].digest = Bytes(procs[p].data).digest

\* Two computations over different bytes, both half way through their writes,
\* each on an instance of its own
C14_Witness ==
    /\ pc = "pool"
    /\ Len(heap) = 2
    /\ \A p \in Procs :
         /\ procs[p].pc = "write"
         /\ 0 < procs[p].pos /\ procs[p].pos < Len(procs[p].data)
    /\ procs[1].id # procs[2].id
    /\ procs[1].data # procs[2].data

\* ------------------------------------------------------------------------
\* The cache of an unsized source (Spec)
\* ------------------------------------------------------------------------
\* The bytes the streamReader has stored, in the file or in memory
Stored == IF sr.file # "nil" THEN tmp.data ELSE sr.cached

\* C15: while an unsized source is cached the temporary file is created lazily:
\* after every read of ReadAll the file exists exactly if the bytes counted so
\* far exceed the threshold, so it is created at the read that first exceeds it;
\* no file is ever created while the count is at most the threshold, and then
\* all bytes read are in memory.
C15_LazySpill ==
    /\ tmp # NoFile => sr.size > sr.cachedSize
    /\ pc \in { "readall", "rehash" } =>
         /\ (sr.file = "tmp" /\ tmp.exists) <=> sr.size > sr.cachedSize
         /\ sr.file = "nil" => (tmp = NoFile /\ sr.cached = SubSeq(src, 1, rpos))
    /\ pc = "readall" => sr.size = rpos

\* The read that first exceeds the threshold has just created the file
C15_Witness ==
    /\ pc = "readall"
    /\ sr.file = "tmp" /\ tmp.exists
    /\ sr.size = sr.cachedSize + 1
    /\ rpos < Len(src)

\* C16: after ReadAll and Reset, reading the streamReader to EOF returns the
\* source's bytes in their order, whatever the source's Read calls returned, and
\* Size() is their count, in memory and in the file, the bytes cached before the
\* spill included.
C16_ReplayIsSource ==
    pc = "rehash" =>
        /\ Stored = src
        /\ sr.size = Len(src)
        /\ srRest = SubSeq(src, sr.offset + 1, Len(src))
        /\ sr.file # "nil" => tmp.pos = sr.offset

\* The spilled source has been read back to its end
C16_Witness ==
    /\ pc = "rehash"
    /\ sr.file = "tmp" /\ tmp.data = src
    /\ Len(src) = sr.cachedSize + 1
    /\ sr.offset = Len(src) /\ srRest = << >>

\* C17: WithCachedSize(n) overrides the cache ceiling for every positive n: the
\* threshold of the streamReader is max(n, minCachedSize) when n > 0, and it is
\* defaultCachedSize only when the option is absent or n is not positive.
C17_CachedSizeOverride ==
    pc \in { "readall", "rehash" } =>
        sr.cachedSize = IF options.cachedSize # << >> /\ options.cachedSize[1] > 0
                        THEN Max2(options.cachedSize[1], minCachedSize)
                        ELSE defaultCachedSize

\* ------------------------------------------------------------------------
\* The meaning of score 100 (SpecCompare)
\* ------------------------------------------------------------------------
\* C18: a score of 100 means identical hashes: Compare returns 100 only if the
\* segments it scores, chosen by the relation of the block sizes, are equal
\* strings.
C18_HundredMeansEqual ==
    (Compared /\ BothParse /\ cmp.score = 100) =>
        IF BlockSize1 = BlockSize2 THEN Seg1A = Seg1B \/ Seg2A = Seg2B
        ELSE IF BlockSize1 = Dbl64(BlockSize2) THEN Seg1A = Seg2B
        ELSE Seg2A = Seg1B

\* ------------------------------------------------------------------------
\* The literal fixture (Spec)
\* ------------------------------------------------------------------------
\* The digest TestHashAgainstOfficialAlgorithm expects for FoxSource
FoxExpectedHash ==
    << "3", ":", "F", "J", "K", "K", "I", "U", "K", "a", "c", "d", "n", ":", "F", "H", "I", "G", "M" >>

\* C19: Bytes applied to the 43 bytes "The quick brown fox jumps over the lazy
\* dog" returns exactly "3:FJKKIUKacdn:FHIGM", with no error.
C19_FoxFixture ==
    (BytesDone /\ src = FoxSource) =>
        result = [digest |-> FoxExpectedHash, err |-> NoError]

\* ------------------------------------------------------------------------
\* Split writes against one write (SpecHash)
\* ------------------------------------------------------------------------
\* C20: for a byte sequence of any length, lengths beyond the range of the 32-bit
\* counter n included, and any block size, any split into consecutive Write
\* calls, empty ones included, leaves the same state and the same Sum as a
\* single Write of the whole sequence.
C20_SplitEqualsSingle ==
    pc = "hash" =>
        /\ state = WriteBack(single)
        /\ Sum(state) = Sum(WriteBack(single))

\* ------------------------------------------------------------------------
\* The rolling hash (SpecHash)
\* ------------------------------------------------------------------------
\* The last windowSize bytes written, oldest first; positions before the start
\* (and the zero bytes a run started with) count as 0
LastWindow ==
    [ i \in 1..windowSize |->
        IF Len(fed) - windowSize + i >= 1 THEN fed[Len(fed) - windowSize + i] ELSE 0 ]

RECURSIVE SumBytes(_, _)
SumBytes(w, k) == IF k = 0 THEN 0 ELSE SumBytes(w, k - 1) + w[k]

RECURSIVE WeightedBytes(_, _)
WeightedBytes(w, k) == IF k = 0 THEN 0 ELSE WeightedBytes(w, k - 1) + k * w[k]

RECURSIVE ShiftXorBytes(_, _)
ShiftXorBytes(w, k) ==
    IF k = 0 THEN Zero32 ELSE Xor32Byte(Mul32Small(ShiftXorBytes(w, k - 1), 32), w[k])

\* How often byte b occurs in w
Occurrences(w, b) == Cardinality({ i \in 1..Len(w) : w[i] = b })

\* C21: after any sequence of Write calls h1 is the sum modulo 2^32 of the last 7
\* bytes written, the window holds exactly those 7 bytes, and h2 and h3, hence
\* the trigger value h1 + h2 + h3, are functions of those 7 bytes alone.
C21_RollingWindow ==
    pc = "hash" =>
        /\ state.h1 = U32(SumBytes(LastWindow, windowSize))
        /\ \A b \in 0..255 : Occurrences(state.window, b) = Occurrences(LastWindow, b)
        /\ state.h2 = U32(WeightedBytes(LastWindow, windowSize))
        /\ state.h3 = ShiftXorBytes(LastWindow, windowSize)

\* ------------------------------------------------------------------------
\* The boundary tests of Write on their own (SpecTrigger)
\* ------------------------------------------------------------------------
\* The state the tests are applied to: one byte has been written, so p1 and p2
\* are in mid-block
TriggerStart(blockSize) == Write(newSSDeepState(blockSize), << 44 >>)

\* Values of h = h1 + h2 + h3 around the boundaries of blockSize and of twice
\* blockSize, and the two values that end in 31 and in 32 one-bits
TriggerValues(blockSize) ==
    { Sub32(Mul32Small(blockSize, m), U32(1)) : m \in 0..4 }
        \cup { Mul32Small(blockSize, m) : m \in 0..2 }
        \cup { << 32767, 65535 >>, << 65535, 65535 >> }

\* The two boundary tests one after the other, neither inside the other, as the
\* earlier revision of Write has them
IndependentTests(s, h, bs1, bs2) ==
    LET t == IF Mod32(h, bs1) = Sub32(bs1, U32(1))
             THEN [s EXCEPT
                     !.hash1 = IF Len(s.hash1) < spamSumLength
                               THEN Append(s.hash1, base64Chars[(s.p1[2] % 64) + 1])
                               ELSE s.hash1,
                     !.p1 = hashInit]
             ELSE s
    IN  IF Mod32(h, bs2) = Sub32(bs2, U32(1))
        THEN [t EXCEPT
                !.hash2 = IF Len(t.hash2) < spamSumLength
                          THEN Append(t.hash2, base64Chars[(t.p2[2] % 64) + 1])
                          ELSE t.hash2,
                !.p2 = hashInit]
        ELSE t

TriggerInit ==
    /\ state \in { TriggerStart(bs) : bs \in Doublings(U32(minBlockSize)) }
    /\ trigger \in TriggerValues(state.blockSize)
    /\ fed = << >>
    /\ single = NoState
    /\ pc = "trigger"

\* The boundary tests of one iteration of Write's loop, h being trigger
BoundaryTest ==
    /\ pc = "trigger"
    /\ state' = WriteBoundary1(state, trigger, state.blockSize,
                               Mul32Small(state.blockSize, 2))
    /\ pc' = "tested"
    /\ UNCHANGED << src, kind, options, opts, rpos, sr, tmp, result, hashVars, cmpVars,
                    poolVars >>

InitTrigger == TriggerInit /\ StreamIdle /\ CmpIdle /\ PoolIdle

SpecTrigger == InitTrigger /\ [][BoundaryTest]_vars

\* C22: for every block size B the hasher is constructed with and every trigger
\* value h, h mod 2B = 2B - 1 (2B in uint32) implies h mod B = B - 1, so the
\* nested test appends to hash2 and resets p2 exactly where two independent
\* tests do.
C22_NestedEqualsIndependent ==
    pc = "tested" =>
        LET bs1 == state.blockSize
            bs2 == Mul32Small(bs1, 2)
        IN  /\ Mod32(trigger, bs2) = Sub32(bs2, U32(1)) => Mod32(trigger, bs1) = Sub32(bs1, U32(1))
            /\ state = IndependentTests(TriggerStart(bs1), trigger, bs1, bs2)

\* ------------------------------------------------------------------------
\* The trailing character of Sum (SpecHash)
\* ------------------------------------------------------------------------
\* h = h1 + h2 + h3 as Write computed it for the byte written last
LastTrigger == Add32(Add32(state.h1, state.h2), state.h3)

\* The byte written last was a boundary of blockSize, of twice blockSize
AtBoundary1 ==
    Len(fed) > 0 /\ Mod32(LastTrigger, state.blockSize) = Sub32(state.blockSize, U32(1))
AtBoundary2 ==
    /\ AtBoundary1
    /\ Mod32(LastTrigger, Mul32Small(state.blockSize, 2))
           = Sub32(Mul32Small(state.blockSize, 2), U32(1))

\* At least one byte has been written at all
SomeWritten == Len(fed) > 0 \/ state.n # Zero32

\* A segment with its trailing character, if it is due
Flushed(hash, p, due) ==
    IF due /\ Len(hash) < spamSumLength THEN Append(hash, base64Chars[(p[2] % 64) + 1])
    ELSE hash

\* C23: Sum appends the trailing character alphabet[p mod 64] to a segment exactly
\* when the segment holds fewer than 64 characters and at least one byte has been
\* written since that resolution's last boundary (or since the start); it appends
\* nothing when no byte was consumed since the last boundary.
C23_TrailingCharacter ==
    pc = "hash" =>
        Sum(state) =
            FormatU32(state.blockSize) \o << ":" >>
                \o Flushed(state.hash1, state.p1, SomeWritten /\ ~AtBoundary1) \o << ":" >>
                \o Flushed(state.hash2, state.p2, SomeWritten /\ ~AtBoundary2)

\* ------------------------------------------------------------------------
\* shrink, levenshtein and score on pairs of segments (SpecScore)
\* ------------------------------------------------------------------------
\* Every string over two characters up to this length
MaxSegLen == 4
ShortSegs == SeqsUpTo({ "A", "B" }, MaxSegLen)

\* The segments of the first two pairs of TestCompareAgainstOfficialAlgorithm
FixtureSeg1A == << "F", "J", "K", "K", "I", "U", "K", "a", "c", "t" >>
FixtureSeg1B == << "F", "J", "K", "K", "I", "r", "K", "a", "c", "t" >>
FixtureSeg2A == << "F", "H", "I", "G", "i" >>
FixtureSeg2B == << "F", "H", "I", "r", "G", "i" >>

\* Longer segments: the fixture's, pairs one edit apart of length 7 and 12, the
\* saturated ones, and four with runs: twelve equal characters, four runs of
\* four, a run of four in front of seven others, and a run of five inside
LongSegs ==
    { FixtureSeg1A, FixtureSeg1B, FixtureSeg2A, FixtureSeg2B,
      << "A","B","C","D","E","F","G" >>, << "A","B","C","D","E","F","X" >>,
      << "A","B","C","D","E","F","G","H","I","J","K","L" >>,
      << "A","B","C","D","E","F","G","H","I","J","K","X" >>,
      SegAlpha, SegAlpha1, SegRun,
      << "A", "A", "A", "A", "A", "A", "A", "A", "A", "A", "A", "A" >>,
      << "A", "A", "A", "A", "B", "B", "B", "B", "C", "C", "C", "C", "D", "D", "D", "D" >>,
      << "A", "A", "A", "A", "B", "C", "D", "E", "F", "G", "H" >>,
      << "A", "B", "C", "D", "D", "D", "D", "D", "E", "F", "G", "H", "I", "J" >> }

Segments == ShortSegs \cup LongSegs

ScoreInit ==
    /\ hash1 \in Segments
    /\ hash2 \in Segments
    /\ cmp = NoCmp
    /\ pc = "segments"
    /\ state = NoState

\* shrink(hash1, buf[:0])
ShrinkCall ==
    /\ pc = "segments"
    /\ cmp' = [shrunk |-> shrink(hash1)]
    /\ pc' = "shrunk"
    /\ UNCHANGED << src, kind, options, opts, rpos, state, sr, tmp, result, hashVars,
                    hash1, hash2, poolVars >>

\* levenshtein(hash1, hash2)
LevenshteinCall ==
    /\ pc = "segments"
    /\ cmp' = [dist |-> levenshtein(hash1, hash2)]
    /\ pc' = "measured"
    /\ UNCHANGED << src, kind, options, opts, rpos, state, sr, tmp, result, hashVars,
                    hash1, hash2, poolVars >>

\* score(hash1, hash2, _)
ScoreCall ==
    /\ pc = "segments"
    /\ cmp' = [score |-> score(hash1, hash2)]
    /\ pc' = "scored"
    /\ UNCHANGED << src, kind, options, opts, rpos, state, sr, tmp, result, hashVars,
                    hash1, hash2, poolVars >>

InitScore == ScoreInit /\ StreamIdle /\ HashIdle /\ PoolIdle

NextScore == ShrinkCall \/ LevenshteinCall \/ ScoreCall

SpecScore == InitScore /\ [][NextScore]_vars

\* The edit distance by the full table, row after row: row i holds the distances
\* of a[1..i] to every prefix of b, and is filled from row i - 1 left to right
RECURSIVE EditRowFill(_, _, _, _)
EditRowFill(r, prev, c, b) ==
    IF Len(r) = Len(b) + 1 THEN r
    ELSE LET j == Len(r)
         IN  EditRowFill(Append(r, Min2(Min2(prev[j + 1] + 1, r[j] + 1),
                                        prev[j] + (IF c = b[j] THEN 0 ELSE 1))),
                         prev, c, b)

RECURSIVE EditRows(_, _, _, _)
EditRows(prev, a, b, i) ==
    IF i > Len(a) THEN prev
    ELSE EditRows(EditRowFill(<< prev[1] + 1 >>, prev, a[i], b), a, b, i + 1)

EditDistance(a, b) == EditRows([j \in 1..(Len(b) + 1) |-> j - 1], a, b, 1)[Len(b) + 1]

\* C24: for two segments whose raw strings differ and whose shrunk lengths n1, n2
\* are both at least 7, score is 100 - ((d*64 div (n1+n2))*100 div 64) with
\* truncating divisions in that order, d the edit distance of the shrunk
\* strings, capped at min(n1,n2)*100 div 14 when n1 < 11 or n2 < 11; and
\* Compare("3:FJKKIUKact:FHIGi", "3:FJKKIrKact:FHIrGi") = 71.
C24_ScoreFormula ==
    pc = "scored" =>
        LET b1 == shrink(hash1)
            b2 == shrink(hash2)
            n1 == Len(b1)
            n2 == Len(b2)
        IN  /\ (hash1 # hash2 /\ n1 >= 7 /\ n2 >= 7) =>
                 LET d    == EditDistance(b1, b2)
                     base == 100 - ((((d * 64) \div (n1 + n2)) * 100) \div 64)
                     cap  == ((IF n1 < n2 THEN n1 ELSE n2) * 100) \div 14
                 IN  cmp.score = IF (n1 < 11 \/ n2 < 11) /\ base > cap THEN cap ELSE base
            /\ (hash1 = FixtureSeg1A /\ hash2 = FixtureSeg1B) => cmp.score = 71
            /\ Compare(Join3(<< "3" >>, FixtureSeg1A, FixtureSeg2A),
                       Join3(<< "3" >>, FixtureSeg1B, FixtureSeg2B))
                   = [score |-> 71, err |-> NoError]

\* The fixture's first segments, one edit apart and ten long, scored 71: the cap
\* for short segments applied
C24_Witness ==
    /\ pc = "scored"
    /\ hash1 = FixtureSeg1A /\ hash2 = FixtureSeg1B
    /\ EditDistance(shrink(hash1), shrink(hash2)) = 1
    /\ cmp.score = 71

\* C25: score is 100 whenever the two raw segments are identical, also when they
\* are empty or shorter than 7; otherwise it is 0 whenever either shrunk segment
\* is shorter than 7; and Compare("3:FJKKIUKact:FHIGi", "3:AXA:B") = 0.
C25_ShortcutAndMinLength ==
    pc = "scored" =>
        /\ hash1 = hash2 => cmp.score = 100
        /\ (hash1 # hash2 /\ (Len(shrink(hash1)) < 7 \/ Len(shrink(hash2)) < 7)) =>
               cmp.score = 0
        /\ Compare(Join3(<< "3" >>, FixtureSeg1A, FixtureSeg2A),
                   << "3", ":", "A", "X", "A", ":", "B" >>)
               = [score |-> 0, err |-> NoError]

\* Two different segments of twelve and of seven characters scored 0, the first
\* being three characters long once shrunk
C25_Witness ==
    /\ pc = "scored"
    /\ Len(hash1) = 12 /\ Len(shrink(hash1)) = 3
    /\ Len(hash2) = 7 /\ Len(shrink(hash2)) = 7
    /\ cmp.score = 0

RECURSIVE KeptUpTo(_, _)
KeptUpTo(s, k) ==
    IF k = 0 THEN << >>
    ELSE IF k >= 4 /\ s[k] = s[k - 1] /\ s[k] = s[k - 2] /\ s[k] = s[k - 3]
         THEN KeptUpTo(s, k - 1)
         ELSE Append(KeptUpTo(s, k - 1), s[k])

\* The lengths of the maximal runs of equal characters of s[1..k], in order
RECURSIVE RunLengths(_, _)
RunLengths(s, k) ==
    IF k = 0 THEN << >>
    ELSE LET r == RunLengths(s, k - 1)
         IN  IF k > 1 /\ s[k] = s[k - 1]
             THEN [r EXCEPT ![Len(r)] = @ + 1]
             ELSE Append(r, 1)

HasLongRun(s) ==
    \E i \in 4..Len(s) : s[i] = s[i - 1] /\ s[i] = s[i - 2] /\ s[i] = s[i - 3]

\* C27: shrink(s) drops the character at position i iff it equals each of the
\* three characters before it in s; so every run of 4 or more equal characters
\* becomes a run of exactly 3, a string without such a run is returned unchanged,
\* and shrink(shrink(s)) = shrink(s).
C27_ShrinkRuns ==
    pc = "shrunk" =>
        /\ cmp.shrunk = KeptUpTo(hash1, Len(hash1))
        /\ RunLengths(cmp.shrunk, Len(cmp.shrunk))
               = [ k \in 1..Len(RunLengths(hash1, Len(hash1))) |->
                     IF RunLengths(hash1, Len(hash1))[k] > 3 THEN 3
                     ELSE RunLengths(hash1, Len(hash1))[k] ]
        /\ ~HasLongRun(hash1) => cmp.shrunk = hash1
        /\ shrink(cmp.shrunk) = cmp.shrunk

\* A run of five between other characters lost two of its characters
C27_Witness ==
    /\ pc = "shrunk"
    /\ hash1 = << "A", "B", "C", "D", "D", "D", "D", "D", "E", "F", "G", "H", "I", "J" >>
    /\ cmp.shrunk = << "A", "B", "C", "D", "D", "D", "E", "F", "G", "H", "I", "J" >>

Half32(b) == << b[1] \div 2, (b[2] \div 2) + (b[1] % 2) * 32768 >>

\* C29: estimateBlockSize(size) terminates for every size a caller can supply, a
\* positive int64 passed with WithFixedSize or the byte count of a source, and
\* returns the smallest 3 * 2^k whose product with 64 is at least size; the
\* uint32 block size never wraps while it is doubled.
C29_EstimateTerminates ==
    /\ pc # "spin"
    /\ pc \in { "copy", "rehash" } =>
         /\ state.blockSize \in BlockSizeForms
         /\ ~Lt64(Mul64Len(state.blockSize), StatedSize)
         /\ state.blockSize # U32(minBlockSize) =>
                Lt64(Mul64Len(Half32(state.blockSize)), StatedSize)

\* ------------------------------------------------------------------------
\* Symmetry of Compare (SpecCompare)
\* ------------------------------------------------------------------------
\* C30: Compare is symmetric.  For all strings a and b, Compare(a, b) and
\* Compare(b, a) return the same score and agree on whether an error is
\* returned, whether the block sizes are equal, one the double of the other, or
\* unrelated.
C30_CompareSymmetric ==
    Compared =>
        LET swapped == Compare(hash2, hash1)
        IN  /\ swapped.score = cmp.score
            /\ (swapped.err = NoError) <=> (cmp.err = NoError)

\* A pair whose block sizes are 12 and 24 and whose segments of block size 24
\* are equal has been compared, smaller block size first
C30_Witness ==
    /\ Compared
    /\ hash1 = Fixture12 /\ hash2 = Fixture24
    /\ cmp.err = NoError /\ cmp.score = 100

==========================================================================
